---- MODULE Spec2Model ----
(***************************************************************************)
(* Model of boards/generate.py: the layout parser (parse, _name, _tag,     *)
(* _pins, Pin), the table builders (_make_pwm, _make_i2c, _make_spi) with  *)
(* the resolvers of the emitted module (CODE_I2C, CODE_SPI), and the       *)
(* multi-file driver make_code_files.                                      *)
(*                                                                         *)
(* A text is a sequence of one-character strings, a file a sequence of     *)
(* raw lines.  Python's None is the empty set and a present value v the    *)
(* singleton {v}.  Python indices are 0-based and are kept 0-based in the  *)
(* variables; line x of v is v[x + 1].                                     *)
(***************************************************************************)
EXTENDS Integers, Sequences, FiniteSets, TLC

\* F applied to the value of v, v being evaluated once
Strict(v, F(_)) == CHOOSE r \in {F(a) : a \in {v}} : TRUE

\* The sequence f, its elements evaluated once
Tuple(f) == SubSeq(f, 1, Len(f))

(***************************************************************************)
(* Characters.  Ascii[k] is the character with code point 31 + k.          *)
(***************************************************************************)
Ascii ==
  <<
    " ", "!", "DQUOTE", "#", "$", "%", "&", "SQUOTE", "(", ")", "*", "+", ",", "-", ".", "/",
    "0", "1", "2", "3", "4", "5", "6", "7", "8", "9", ":", ";", "<", "=", ">", "?",
    "@", "A", "B", "C", "D", "E", "F", "G", "H", "I", "J", "K", "L", "M", "N", "O",
    "P", "Q", "R", "S", "T", "U", "V", "W", "X", "Y", "Z", "[", "BSLASH", "]", "^", "_",
    "BTICK", "a", "b", "c", "d", "e", "f", "g", "h", "i", "j", "k", "l", "m", "n", "o",
    "p", "q", "r", "s", "t", "u", "v", "w", "x", "y", "z", "{", "|", "}", "~"
  >>

Chars == {Ascii[m] : m \in 1..Len(Ascii)}

OrdTab == [ch \in Chars |-> 31 + (CHOOSE m \in 1..Len(Ascii) : Ascii[m] = ch)]

ord(ch) == OrdTab[ch]

chr(num) == Ascii[num - 31]

\* str.upper() on one character, and on a text
UpperCh(ch) == IF ord(ch) >= 97 /\ ord(ch) <= 122 THEN chr(ord(ch) - 32) ELSE ch

upper(s) == Tuple([m \in 1..Len(s) |-> UpperCh(s[m])])

\* str.lower()
LowerCh(ch) == IF ord(ch) >= 65 /\ ord(ch) <= 90 THEN chr(ord(ch) + 32) ELSE ch

lower(s) == Tuple([m \in 1..Len(s) |-> LowerCh(s[m])])

(***************************************************************************)
(* The str methods the parser uses.                                        *)
(***************************************************************************)
\* s[a:] for 0 <= a
From(s, a) == SubSeq(s, a + 1, Len(s))

\* s[0:b]
Upto(s, hi) == SubSeq(s, 1, hi)

startswith(s, pre) == Len(s) >= Len(pre) /\ SubSeq(s, 1, Len(pre)) = pre

\* ch in s
Has(s, ch) == \E m \in 1..Len(s) : s[m] = ch

\* s.find(ch): the 0-based index of the first ch, or -1
find(s, ch) ==
  IF Has(s, ch) THEN (CHOOSE m \in 1..Len(s) : s[m] = ch /\ \A j \in 1..(m - 1) : s[j] # ch) - 1
  ELSE -1

\* s.strip(), the blank being the only whitespace of the modelled texts
StripText(s) ==
  IF \A m \in 1..Len(s) : s[m] = " " THEN <<>>
  ELSE LET a == CHOOSE m \in 1..Len(s) : s[m] # " " /\ \A j \in 1..(m - 1) : s[j] = " "
           hi == CHOOSE m \in 1..Len(s) : s[m] # " " /\ \A j \in (m + 1)..Len(s) : s[j] = " "
       IN  SubSeq(s, a, hi)

strip(s) == Strict(s, LAMBDA w : StripText(w))

\* s.split(sep) for a one-character sep
RECURSIVE split(_, _)
split(s, sep) ==
  Strict(find(s, sep), LAMBDA i :
    IF i < 0 THEN <<s>>
    ELSE <<Upto(s, i)>> \o Strict(From(s, i + 1), LAMBDA rest : split(rest, sep)))

IsDigit(ch) == ord(ch) >= 48 /\ ord(ch) <= 57

RECURSIVE DigitsValue(_, _)
DigitsValue(s, acc) ==
  IF s = <<>> THEN acc
  ELSE IF s[1] = "_" THEN Strict(Tail(s), LAMBDA rest : DigitsValue(rest, acc))
  ELSE Strict(<<Tail(s), 10 * acc + (ord(s[1]) - 48)>>,
              LAMBDA a : DigitsValue(a[1], a[2]))

\* int(s, 10): surrounding blanks are dropped, one sign is allowed, single
\* underscores may separate digits.  [ok, val]; ok = FALSE is ValueError.
IntText(w) ==
  LET neg  == w # <<>> /\ w[1] = "-"
      sgn  == w # <<>> /\ w[1] \in {"-", "+"}
      dg   == IF sgn THEN Tail(w) ELSE w
      good == /\ dg # <<>>
              /\ \A m \in 1..Len(dg) : IsDigit(dg[m]) \/ dg[m] = "_"
              /\ IsDigit(dg[1]) /\ IsDigit(dg[Len(dg)])
              /\ \A m \in 1..(Len(dg) - 1) : ~(dg[m] = "_" /\ dg[m + 1] = "_")
  IN  IF good
      THEN [ok |-> TRUE, val |-> IF neg THEN 0 - DigitsValue(dg, 0) ELSE DigitsValue(dg, 0)]
      ELSE [ok |-> FALSE, val |-> 0]

int(s) == Strict(strip(s), LAMBDA w : IntText(w))

(***************************************************************************)
(* The role vocabulary.                                                    *)
(***************************************************************************)
I2C0_SDA == <<"I", "2", "C", "0", "_", "S", "D", "A">>
I2C0_SCL == <<"I", "2", "C", "0", "_", "S", "C", "L">>
I2C1_SDA == <<"I", "2", "C", "1", "_", "S", "D", "A">>
I2C1_SCL == <<"I", "2", "C", "1", "_", "S", "C", "L">>
SPI0_RX == <<"S", "P", "I", "0", "_", "R", "X">>
SPI0_CS == <<"S", "P", "I", "0", "_", "C", "S">>
SPI0_SCK == <<"S", "P", "I", "0", "_", "S", "C", "K">>
SPI0_TX == <<"S", "P", "I", "0", "_", "T", "X">>
SPI1_RX == <<"S", "P", "I", "1", "_", "R", "X">>
SPI1_CS == <<"S", "P", "I", "1", "_", "C", "S">>
SPI1_SCK == <<"S", "P", "I", "1", "_", "S", "C", "K">>
SPI1_TX == <<"S", "P", "I", "1", "_", "T", "X">>
UART0_TX == <<"U", "A", "R", "T", "0", "_", "T", "X">>
UART0_RX == <<"U", "A", "R", "T", "0", "_", "R", "X">>
UART0_CTS == <<"U", "A", "R", "T", "0", "_", "C", "T", "S">>
UART0_RTS == <<"U", "A", "R", "T", "0", "_", "R", "T", "S">>
UART1_TX == <<"U", "A", "R", "T", "1", "_", "T", "X">>
UART1_RX == <<"U", "A", "R", "T", "1", "_", "R", "X">>
UART1_CTS == <<"U", "A", "R", "T", "1", "_", "C", "T", "S">>
UART1_RTS == <<"U", "A", "R", "T", "1", "_", "R", "T", "S">>

_VALID_I2C == {I2C0_SDA, I2C0_SCL, I2C1_SDA, I2C1_SCL}

_VALID_SPI == {SPI0_RX, SPI0_CS, SPI0_SCK, SPI0_TX, SPI1_RX, SPI1_CS, SPI1_SCK, SPI1_TX}

_VALID_UART ==
  {UART0_TX, UART0_RX, UART0_CTS, UART0_RTS, UART1_TX, UART1_RX, UART1_CTS, UART1_RTS}

(***************************************************************************)
(* Pin.__init__.  The loop over the role tokens is PinRoles: st carries    *)
(* self.roles, the three counters and the error raised inside the loop.    *)
(***************************************************************************)
None == {}

Some(v) == {v}

RECURSIVE PinRoles(_, _)
\* One iteration of the loop, on token r
PinRole(r, st) ==
  Strict(upper(r), LAMBDA v :
    IF Len(r) = 0 THEN st
    ELSE IF v \in _VALID_I2C THEN [st EXCEPT !.roles = Append(@, v), !.i = @ + 1]
    ELSE IF v \in _VALID_SPI THEN [st EXCEPT !.roles = Append(@, v), !.s = @ + 1]
    ELSE IF v \in _VALID_UART THEN [st EXCEPT !.roles = Append(@, v), !.u = @ + 1]
    ELSE [st EXCEPT !.roles = Append(@, v), !.err = "invalid role"])

PinRoles(roles, st) ==
  IF roles = <<>> \/ st.err # "" THEN st
  ELSE Strict(PinRole(roles[1], st), LAMBDA s2 : PinRoles(Tail(roles), s2))

\* The three checks with the limit one too high: two roles of a class pass
PinClassErrorOfTwo(st) ==
  IF st.i > 2 THEN "single I2C role"
  ELSE IF st.s > 2 THEN "single SPI role"
  ELSE IF st.u > 2 THEN "single UART role"
  ELSE ""

\* The limit of the three checks after the loop (i > 1, s > 1, u > 1)
PinClassError(st) ==
  IF st.i > 1 THEN "single I2C role"
  ELSE IF st.s > 1 THEN "single SPI role"
  ELSE IF st.u > 1 THEN "single UART role"
  ELSE ""

\* roles is None (not a list) or Some(list of tokens).  [err, pin]
Pin(id, doc, roles) ==
  Strict(IF roles = None
           THEN [roles |-> <<>>, i |-> 0, s |-> 0, u |-> 0, err |-> ""]
           ELSE PinRoles(CHOOSE e \in roles : TRUE,
                         [roles |-> <<>>, i |-> 0, s |-> 0, u |-> 0, err |-> ""]),
         LAMBDA st :
    [err |-> IF st.err # "" THEN st.err
             ELSE IF roles = None THEN ""
             ELSE PinClassError(st),
     pin |-> [id |-> id,
              doc |-> IF Len(doc) > 0 THEN Some(doc) ELSE None,
              roles |-> st.roles]])

(***************************************************************************)
(* _name, _check_ascii, _tag, _strip_comment.  A result record's err is    *)
(* "" unless the function raises ValueError.                               *)
(***************************************************************************)
Comment == <<"/", "/">>

Hash == <<"#">>

RECURSIVE NameFrom(_, _)
NameFrom(v, y) ==
  IF y >= Len(v) THEN [err |-> "name entry was not found", val |-> <<>>, i |-> y]
  ELSE IF Len(v[y + 1]) = 0 THEN NameFrom(v, y + 1)
  ELSE IF startswith(v[y + 1], Comment) THEN NameFrom(v, y + 1)
  ELSE IF startswith(v[y + 1], Hash) \/ Has(v[y + 1], ":")
    THEN [err |-> "name entry was not found", val |-> <<>>, i |-> y]
  ELSE [err |-> "", val |-> v[y + 1], i |-> y + 1]

_name(v) == NameFrom(v, 0)

\* One character of the scan of _check_ascii
AsciiOk(ch, strict) ==
  LET num == ord(ch)
  IN  \/ num >= 97 /\ num <= 122
      \/ num >= 65 /\ num <= 90
      \/ num >= 48 /\ num <= 57
      \/ num = 95 \/ num = 45
      \/ /\ ~strict
         /\ num \in {32, 91, 93, 124, 123, 125, 40, 41, 64}

_check_ascii(v, strict) ==
  IF Len(v) <= 1 THEN FALSE
  ELSE IF strict /\ (IsDigit(v[1]) \/ ord(v[1]) = 95 \/ ord(v[1]) = 45) THEN FALSE
  ELSE \A m \in 1..Len(v) : AsciiOk(v[m], strict)

\* The least length of a line "#<tag>" that _tag takes as the tag line
TagLineMin == 4

\* The test with the length the line is described with, 3
IsTagLineOfThree(ln) == startswith(ln, Hash) /\ Len(ln) >= 3

\* The test of _tag that a line is the tag line
IsTagLine(ln) == startswith(ln, Hash) /\ Len(ln) >= TagLineMin

RECURSIVE TagFrom(_, _)
TagFrom(v, y) ==
  IF y >= Len(v) THEN [err |-> "#<tag> entry was not found", val |-> <<>>, i |-> y]
  ELSE IF Len(v[y + 1]) = 0 THEN TagFrom(v, y + 1)
  ELSE IF startswith(v[y + 1], Comment) THEN TagFrom(v, y + 1)
  ELSE IF IsTagLine(v[y + 1]) THEN [err |-> "", val |-> From(v[y + 1], 1), i |-> y + 1]
  ELSE IF Has(v[y + 1], ":")
    THEN [err |-> "#<tag> entry was not found", val |-> <<>>, i |-> y]
  ELSE TagFrom(v, y + 1)

_tag(v, start) == TagFrom(v, start)

_strip_comment(v) ==
  IF \A m \in 1..Len(v) : v[m] \in {"/", " "} THEN v
  ELSE LET a == CHOOSE m \in 1..Len(v) :
                  v[m] \notin {"/", " "} /\ \A j \in 1..(m - 1) : v[j] \in {"/", " "}
       IN  SubSeq(v, a, Len(v))

(***************************************************************************)
(* _pins.  PinsLine is one iteration of its loop on line ln; st carries    *)
(* the locals c (pending comments), p (pins), g (ids seen) and the error   *)
(* raised.                                                                 *)
(***************************************************************************)
\* The role list e of a pin line's text r after the colon
StripAll(parts) == Tuple([m \in 1..Len(parts) |-> strip(parts[m])])

RoleList(r) ==
  IF r = <<"-">> THEN None
  ELSE IF Has(r, ",") THEN Some(Strict(split(r, ","), LAMBDA parts : StripAll(parts)))
  ELSE Some(Strict(split(r, " "), LAMBDA parts : StripAll(parts)))

\* The iteration with the id recorded after the test for an empty rest, so
\* that a line <id>: does not record its id
PinEntryUnrecorded(st, ln, i, num) ==
  IF ~num.ok THEN [st EXCEPT !.err = "invalid pin ID"]
  ELSE IF num.val \in st.g THEN [st EXCEPT !.err = "duplicate pin ID"]
  ELSE IF i + 1 = Len(ln) THEN [st EXCEPT !.c = <<>>]
  ELSE Strict(Strict(strip(From(ln, i + 1)), LAMBDA r : Pin(num.val, st.c, RoleList(r))),
              LAMBDA pn :
         IF pn.err # ""
           THEN [st EXCEPT !.g = @ \cup {num.val}, !.err = pn.err]
           ELSE [st EXCEPT !.g = @ \cup {num.val}, !.p = Append(@, pn.pin), !.c = <<>>])

\* The iteration with a line <id>: handled as a line <id>: - is
PinEntryBareAsDash(st, ln, i, num) ==
  IF ~num.ok THEN [st EXCEPT !.err = "invalid pin ID"]
  ELSE IF num.val \in st.g THEN [st EXCEPT !.err = "duplicate pin ID"]
  ELSE Strict(Strict(strip(From(ln, i + 1)),
                     LAMBDA r : Pin(num.val, st.c, IF r = <<>> THEN None ELSE RoleList(r))),
              LAMBDA pn :
         IF pn.err # ""
           THEN [st EXCEPT !.g = @ \cup {num.val}, !.err = pn.err]
           ELSE [st EXCEPT !.g = @ \cup {num.val}, !.p = Append(@, pn.pin), !.c = <<>>])

\* The iteration from the line's colon on: i is its index, num the int() of
\* the text before it
PinEntry(st, ln, i, num) ==
  IF ~num.ok THEN [st EXCEPT !.err = "invalid pin ID"]
  ELSE IF num.val \in st.g THEN [st EXCEPT !.err = "duplicate pin ID"]
  ELSE IF i + 1 = Len(ln) THEN [st EXCEPT !.g = @ \cup {num.val}, !.c = <<>>]
  ELSE Strict(Strict(strip(From(ln, i + 1)), LAMBDA r : Pin(num.val, st.c, RoleList(r))),
              LAMBDA pn :
         IF pn.err # ""
           THEN [st EXCEPT !.g = @ \cup {num.val}, !.err = pn.err]
           ELSE [st EXCEPT !.g = @ \cup {num.val}, !.p = Append(@, pn.pin), !.c = <<>>])

PinsLine(st, ln) ==
  IF Len(ln) = 0 THEN st
  ELSE IF startswith(ln, Comment)
    THEN [st EXCEPT !.c = Append(@, strip(_strip_comment(ln)))]
  ELSE Strict(find(ln, ":"), LAMBDA i :
         IF i <= 0 THEN [st EXCEPT !.err = "invalid pin line entry"]
         ELSE Strict(int(Upto(ln, i)), LAMBDA num : PinEntry(st, ln, i, num)))

RECURSIVE PinsFrom(_, _, _)
PinsFrom(v, y, st) ==
  IF y >= Len(v) \/ st.err # "" THEN st
  ELSE Strict(PinsLine(st, v[y + 1]), LAMBDA s2 : PinsFrom(v, y + 1, s2))

_pins(v, start) == PinsFrom(v, start, [c |-> <<>>, p |-> <<>>, g |-> {}, err |-> ""])

(***************************************************************************)
(* parse.  ReadLines is the list comprehension of its first statement;     *)
(* SortPins is p.sort(key=lambda x: x.id), a stable sort.                  *)
(***************************************************************************)
ReadLines(file) == Tuple([m \in 1..Len(file) |-> strip(file[m])])

RECURSIVE InsertPin(_, _)
InsertPin(sorted, q) ==
  IF sorted = <<>> THEN <<q>>
  ELSE IF sorted[Len(sorted)].id <= q.id THEN Append(sorted, q)
  ELSE Strict(SubSeq(sorted, 1, Len(sorted) - 1),
              LAMBDA front : Append(InsertPin(front, q), sorted[Len(sorted)]))

RECURSIVE SortPins(_)
SortPins(ps) ==
  IF ps = <<>> THEN <<>>
  ELSE Strict(Strict(SubSeq(ps, 1, Len(ps) - 1), LAMBDA front : SortPins(front)),
              LAMBDA sorted : InsertPin(sorted, ps[Len(ps)]))

\* The least number of lines of a layout file is one more than this
MinLines == 4

NoBoard == [n |-> <<>>, t |-> <<>>, p |-> <<>>]

\* The return statement without the lower-casing of the tag
ParseResultAsWritten(nm, tg, ps) == [n |-> nm, t |-> tg, p |-> SortPins(ps)]

\* The return statement of parse
ParseResult(nm, tg, ps) == [n |-> nm, t |-> lower(tg), p |-> SortPins(ps)]

\* parse from the call of _pins on
ParsePins(v, nm, tg) ==
  Strict(_pins(v, tg.i), LAMBDA ps :
    IF ps.err # "" THEN [err |-> ps.err, board |-> NoBoard]
    ELSE IF Len(ps.p) = 0 THEN [err |-> "no pin entries found", board |-> NoBoard]
    ELSE [err |-> "", board |-> ParseResult(nm.val, tg.val, ps.p)])

\* parse from the call of _tag on
ParseTagged(v, nm) ==
  Strict(_tag(v, nm.i), LAMBDA tg :
    IF tg.err # "" THEN [err |-> tg.err, board |-> NoBoard]
    ELSE IF ~_check_ascii(tg.val, TRUE)
      THEN [err |-> "tag value is not valid", board |-> NoBoard]
    ELSE ParsePins(v, nm, tg))

\* parse after the lines are read
ParseLines(v) ==
  IF Len(v) <= MinLines THEN [err |-> "content is invalid", board |-> NoBoard]
  ELSE Strict(_name(v), LAMBDA nm :
         IF nm.err # "" THEN [err |-> nm.err, board |-> NoBoard]
         ELSE IF ~_check_ascii(nm.val, FALSE)
           THEN [err |-> "name value is not valid", board |-> NoBoard]
         ELSE ParseTagged(v, nm))

parse(file) == Strict(ReadLines(file), LAMBDA v : ParseLines(v))

(***************************************************************************)
(* The table builders.  A table is the sequence of match arms written, in  *)
(* the order written; the emitted match takes the first arm that matches.  *)
(***************************************************************************)
\* "ROLE" in i.roles
HasRole(pin, role) == \E m \in 1..Len(pin.roles) : pin.roles[m] = role

\* int(id / 2): the quotient truncated toward zero
HalfTrunc(id) == IF id >= 0 THEN id \div 2 ELSE 0 - ((0 - id) \div 2)

\* The arm _make_pwm writes for one pin: v = int(id / 2) & 0x7, A when id % 2 == 0
PwmArm(id) ==
  [pin |-> id, chan |-> HalfTrunc(id) % 8, sub |-> IF id % 2 = 0 THEN "A" ELSE "B"]

_make_pwm(pins) == Tuple([m \in 1..Len(pins) |-> PwmArm(pins[m].id)])

\* The arms one loop iteration writes to one buffer: one arm per role held,
\* the bus 0 role first
Arms(pin, role0, role1) ==
  (IF HasRole(pin, role0) THEN <<[pin |-> pin.id, bus |-> 0]>> ELSE <<>>)
    \o (IF HasRole(pin, role1) THEN <<[pin |-> pin.id, bus |-> 1]>> ELSE <<>>)

RECURSIVE Buffer(_, _, _)
Buffer(pins, role0, role1) ==
  IF pins = <<>> THEN <<>>
  ELSE Arms(pins[1], role0, role1)
         \o Strict(Tail(pins), LAMBDA rest : Buffer(rest, role0, role1))

\* _make_i2c with the bus numbers of the SCL arms exchanged
_make_i2c_crossed(pins) ==
  [sda |-> Buffer(pins, I2C0_SDA, I2C1_SDA), scl |-> Buffer(pins, I2C1_SCL, I2C0_SCL)]

_make_i2c(pins) ==
  [sda |-> Buffer(pins, I2C0_SDA, I2C1_SDA), scl |-> Buffer(pins, I2C0_SCL, I2C1_SCL)]

_make_spi(pins) ==
  [tx  |-> Buffer(pins, SPI0_TX, SPI1_TX),
   scl |-> Buffer(pins, SPI0_SCK, SPI1_SCK),
   rx  |-> Buffer(pins, SPI0_RX, SPI1_RX),
   cs  |-> Buffer(pins, SPI0_CS, SPI1_CS)]

(***************************************************************************)
(* The resolvers of the emitted module.                                    *)
(***************************************************************************)
\* match pin { arms.., _ => return None }
MatchPin(arms, pin) ==
  IF \E m \in 1..Len(arms) : arms[m].pin = pin
    THEN Some(arms[CHOOSE m \in 1..Len(arms) :
                     arms[m].pin = pin /\ \A j \in 1..(m - 1) : arms[j].pin # pin].bus)
    ELSE None

\* match (&d, pin) { arms.. => (), (..) => return None }
MatchPair(arms, dev, pin) == \E m \in 1..Len(arms) : arms[m].bus = dev /\ arms[m].pin = pin

\* match (&d, opt) { (_, None) => (), arms.. => (), (..) => return None }
MatchOpt(arms, dev, opt) == opt = None \/ \E q \in opt : MatchPair(arms, dev, q)

pins_pwm(tab, pin) ==
  LET arm == CHOOSE m \in 1..Len(tab) : tab[m].pin = pin /\ \A j \in 1..(m - 1) : tab[j].pin # pin
  IN  [chan |-> tab[arm].chan, sub |-> tab[arm].sub]

pins_i2c(tab, sda, scl) ==
  LET dev == MatchPin(tab.sda, sda)
  IN  IF dev = None THEN None
      ELSE IF ~(\E bus \in dev : MatchPair(tab.scl, bus, scl)) THEN None
      ELSE dev

\* pins_spi returning early when either optional pin is absent
pins_spi_either(tab, tx, sck, rx, cs) ==
  LET dev == MatchPin(tab.tx, tx)
  IN  IF dev = None THEN None
      ELSE IF ~(\E bus \in dev : MatchPair(tab.scl, bus, sck)) THEN None
      ELSE IF rx = None \/ cs = None THEN dev
      ELSE IF ~(\E bus \in dev : MatchOpt(tab.rx, bus, rx)) THEN None
      ELSE IF ~(\E bus \in dev : MatchOpt(tab.cs, bus, cs)) THEN None
      ELSE dev

pins_spi(tab, tx, sck, rx, cs) ==
  LET dev == MatchPin(tab.tx, tx)
  IN  IF dev = None THEN None
      ELSE IF ~(\E bus \in dev : MatchPair(tab.scl, bus, sck)) THEN None
      ELSE IF rx = None /\ cs = None THEN dev
      ELSE IF ~(\E bus \in dev : MatchOpt(tab.rx, bus, rx)) THEN None
      ELSE IF ~(\E bus \in dev : MatchOpt(tab.cs, bus, cs)) THEN None
      ELSE dev

(***************************************************************************)
(* Layout lines the specifications draw their files from.                  *)
(***************************************************************************)
\* ''
LnBlank == <<>>

\* '// SDA pin'
LnDoc == <<"/", "/", " ", "S", "D", "A", " ", "p", "i", "n">>

\* '5:'
LnBare5 == <<"5", ":">>

\* '5: I2C0_SDA'
LnSda5 == <<"5", ":", " ", "I", "2", "C", "0", "_", "S", "D", "A">>

\* '5: -'
LnDash5 == <<"5", ":", " ", "-">>

\* '3: I2C0_SDA, I2C1_SDA'
LnTwoI2c3 == <<"3", ":", " ", "I", "2", "C", "0", "_", "S", "D", "A", ",", " ", "I", "2", "C", "1", "_", "S", "D", "A">>

\* ' 4 : spi0_rx,SPI0_RX'
LnTwice4 == <<" ", "4", " ", ":", " ", "s", "p", "i", "0", "_", "r", "x", ",", "S", "P", "I", "0", "_", "R", "X">>

\* '3: i2c0_scl spi0_tx UART1_CTS'
LnCross3 == <<"3", ":", " ", "i", "2", "c", "0", "_", "s", "c", "l", " ", "s", "p", "i", "0", "_", "t", "x", " ", "U", "A", "R", "T", "1", "_", "C", "T", "S">>

\* '-5: I2C0_SDA'
LnNeg5 == <<"-", "5", ":", " ", "I", "2", "C", "0", "_", "S", "D", "A">>

\* '1: I2C0_SDA'
LnSda0 == <<"1", ":", " ", "I", "2", "C", "0", "_", "S", "D", "A">>

\* '2: I2C0_SCL'
LnScl0 == <<"2", ":", " ", "I", "2", "C", "0", "_", "S", "C", "L">>

\* '3: I2C1_SCL'
LnScl1 == <<"3", ":", " ", "I", "2", "C", "1", "_", "S", "C", "L">>

\* '4: I2C1_SDA'
LnSda1 == <<"4", ":", " ", "I", "2", "C", "1", "_", "S", "D", "A">>

\* '2: I2C1_SCL, SPI0_TX'
LnScl1Tx == <<"2", ":", " ", "I", "2", "C", "1", "_", "S", "C", "L", ",", " ", "S", "P", "I", "0", "_", "T", "X">>

\* '1: SPI0_TX'
LnTx0 == <<"1", ":", " ", "S", "P", "I", "0", "_", "T", "X">>

\* '2: SPI0_SCK'
LnSck0 == <<"2", ":", " ", "S", "P", "I", "0", "_", "S", "C", "K">>

\* '3: SPI0_RX'
LnRx0 == <<"3", ":", " ", "S", "P", "I", "0", "_", "R", "X">>

\* '4: SPI0_CS'
LnCs0 == <<"4", ":", " ", "S", "P", "I", "0", "_", "C", "S">>

\* '5: SPI1_RX'
LnRx1 == <<"5", ":", " ", "S", "P", "I", "1", "_", "R", "X">>

\* '1: SPI1_TX, I2C0_SDA'
LnTx1 == <<"1", ":", " ", "S", "P", "I", "1", "_", "T", "X", ",", " ", "I", "2", "C", "0", "_", "S", "D", "A">>

\* '2: SPI1_SCK'
LnSck1 == <<"2", ":", " ", "S", "P", "I", "1", "_", "S", "C", "K">>

\* 'Pico [RP2040]'
LnName == <<"P", "i", "c", "o", " ", "[", "R", "P", "2", "0", "4", "0", "]">>

\* '#pico'
LnTagPico == <<"#", "p", "i", "c", "o">>

\* '#ab'
LnTag2 == <<"#", "a", "b">>

\* '#aBc'
LnTag3 == <<"#", "a", "B", "c">>

\* '#Ab-1'
LnTag4 == <<"#", "A", "b", "-", "1">>

\* '#-abc'
LnTagBad == <<"#", "-", "a", "b", "c">>

\* 'rev2'
LnJunk == <<"r", "e", "v", "2">>

\* '#BoardX'
LnTagBoardX == <<"#", "B", "o", "a", "r", "d", "X">>

\* '#boardx'
LnTagboardx == <<"#", "b", "o", "a", "r", "d", "x">>

\* '#LIB'
LnTagLib == <<"#", "L", "I", "B">>

\* '#other'
LnTagOther == <<"#", "o", "t", "h", "e", "r">>

\* '1: FOO'
LnBadRole == <<"1", ":", " ", "F", "O", "O">>

(***************************************************************************)
(* State.  One call of parse followed by format_device:                    *)
(*   raw   the lines of the file read                                      *)
(*   d     the stripped lines (d of parse, v of _name, _tag and _pins)     *)
(*   pc    where the call is: "start", "tag", "pins", "parsed", "done",    *)
(*         or "raised"                                                     *)
(*   x     the index of the next line (i of parse, x of the loop of _pins) *)
(*   n, t  the name and the tag found (n, t of parse)                      *)
(*   c, p, g  the locals of _pins                                          *)
(*   err   the message of the ValueError raised, "" if none                *)
(*   ret   the board parse returned                                        *)
(*   pwm, i2c, spi  the tables format_device built                         *)
(* One call of make_code_files:                                            *)
(*   layouts  the files glob returned, in the order it returned them (d of *)
(*         make_code_files); a file is named by the text it holds          *)
(*   dpc   "glob", "loop", "done" or "raised"                              *)
(*   k     the number of files the loop has finished                       *)
(*   u     the tags seen                                                   *)
(*   disk0, disk  the modules of the boards directory before the run and   *)
(*         now, by tag: src is the file that wrote it (0: not there,       *)
(*         -1: there before the run)                                       *)
(*   b     the tags written to the aggregator buffer                       *)
(*   lib   lib.rs: whether this run wrote it, and the tags it lists        *)
(*   derr  the message of the error raised, "" if none                     *)
(***************************************************************************)
VARIABLES raw, d, pc, x, n, t, c, p, g, err, ret, pwm, i2c, spi,
          layouts, dpc, k, u, disk0, disk, b, lib, derr

pvars == <<raw, d, pc, x, n, t, c, p, g, err, ret, pwm, i2c, spi>>

dvars == <<layouts, dpc, k, u, disk0, disk, b, lib, derr>>

vars == <<raw, d, pc, x, n, t, c, p, g, err, ret, pwm, i2c, spi,
          layouts, dpc, k, u, disk0, disk, b, lib, derr>>

NoTables == [sda |-> <<>>, scl |-> <<>>]

NoSpi == [tx |-> <<>>, scl |-> <<>>, rx |-> <<>>, cs |-> <<>>]

NoModule == [src |-> 0, board |-> NoBoard]

OldModule == [src |-> 0 - 1, board |-> NoBoard]

NoLib == [written |-> FALSE, mods |-> <<>>]

\* parse is entered with the file's lines; nothing is parsed yet
ParseIdle(file) ==
  /\ raw = file
  /\ d = <<>> /\ pc = "start" /\ x = 0 /\ n = <<>> /\ t = <<>>
  /\ c = <<>> /\ p = <<>> /\ g = {} /\ err = "" /\ ret = NoBoard
  /\ pwm = <<>> /\ i2c = NoTables /\ spi = NoSpi

\* make_code_files is not running
DriverIdle ==
  /\ layouts = <<>> /\ dpc = "idle" /\ k = 0 /\ u = {}
  /\ disk0 = <<>> /\ disk = <<>> /\ b = <<>> /\ lib = NoLib /\ derr = ""

(***************************************************************************)
(* parse and format_device, step by step.                                  *)
(***************************************************************************)
\* parse up to the name: read and strip the lines, the length check, _name
ParseName ==
  /\ pc = "start"
  /\ \E dd \in {ReadLines(raw)} : \E nm \in {_name(dd)} :
         /\ d' = dd
         /\ IF Len(dd) <= MinLines
              THEN pc' = "raised" /\ err' = "content is invalid" /\ UNCHANGED <<n, x>>
            ELSE IF nm.err # ""
              THEN pc' = "raised" /\ err' = nm.err /\ UNCHANGED <<n, x>>
            ELSE IF ~_check_ascii(nm.val, FALSE)
              THEN pc' = "raised" /\ err' = "name value is not valid" /\ n' = nm.val /\ x' = nm.i
            ELSE pc' = "tag" /\ n' = nm.val /\ x' = nm.i /\ UNCHANGED err
  /\ UNCHANGED <<raw, t, c, p, g, ret, pwm, i2c, spi>>
  /\ UNCHANGED dvars

\* t, i = _tag(d, i) and the check of t
ParseTag ==
  /\ pc = "tag"
  /\ \E tg \in {_tag(d, x)} :
         IF tg.err # ""
           THEN pc' = "raised" /\ err' = tg.err /\ UNCHANGED <<t, x>>
         ELSE IF ~_check_ascii(tg.val, TRUE)
           THEN pc' = "raised" /\ err' = "tag value is not valid" /\ t' = tg.val /\ x' = tg.i
         ELSE pc' = "pins" /\ t' = tg.val /\ x' = tg.i /\ UNCHANGED err
  /\ UNCHANGED <<raw, d, n, c, p, g, ret, pwm, i2c, spi>>
  /\ UNCHANGED dvars

\* One iteration of the loop of _pins, on line x
PinsLoop ==
  /\ pc = "pins"
  /\ x < Len(d)
  /\ \E st \in {PinsLine([c |-> c, p |-> p, g |-> g, err |-> ""], d[x + 1])} :
         /\ c' = st.c /\ p' = st.p /\ g' = st.g /\ err' = st.err
         /\ IF st.err # "" THEN pc' = "raised" /\ UNCHANGED x
                           ELSE pc' = "pins" /\ x' = x + 1
  /\ UNCHANGED <<raw, d, n, t, ret, pwm, i2c, spi>>
  /\ UNCHANGED dvars

\* The end of parse: _pins returns, the check for no pins, the sort, the return
ParseReturn ==
  /\ pc = "pins"
  /\ x >= Len(d)
  /\ IF Len(p) = 0
       THEN pc' = "raised" /\ err' = "no pin entries found" /\ UNCHANGED ret
       ELSE pc' = "parsed" /\ ret' = ParseResult(n, t, p) /\ UNCHANGED err
  /\ UNCHANGED <<raw, d, x, n, t, c, p, g, pwm, i2c, spi>>
  /\ UNCHANGED dvars

\* format_device on the board parse returned
FormatDevice ==
  /\ pc = "parsed"
  /\ pc' = "done"
  /\ pwm' = _make_pwm(ret.p)
  /\ i2c' = _make_i2c(ret.p)
  /\ spi' = _make_spi(ret.p)
  /\ UNCHANGED <<raw, d, x, n, t, c, p, g, err, ret>>
  /\ UNCHANGED dvars

ParseNext == ParseName \/ ParseTag \/ PinsLoop \/ ParseReturn \/ FormatDevice

(***************************************************************************)
(* make_code_files, from the call of glob on.                              *)
(***************************************************************************)
Header == <<LnName, LnTagPico>>

Body == <<LnSda0, LnBlank, LnBlank>>

\* The texts a layout file of the directory may hold
LayoutFiles ==
  << <<LnName, LnTagBoardX>> \o Body,
     <<LnName, LnTagboardx>> \o Body,
     <<LnName, LnTagLib>> \o Body,
     <<LnName, LnTagOther>> \o Body,
     <<LnName, LnTagPico>> \o Body,
     <<LnName, LnTagOther, LnBadRole, LnBlank, LnBlank>> >>

\* open(file).read().split("\n") for a file of the directory
ReadFile(text) == LayoutFiles[text]

LibTag == <<"l", "i", "b">>

\* The names <tag>.rs a run over such files can write
ModuleTags ==
  UNION {Strict(parse(ReadFile(f)), LAMBDA r : IF r.err = "" THEN {r.board.t} ELSE {}) :
           f \in 1..Len(LayoutFiles)}

\* The empty-list check after glob
DriverStart ==
  /\ dpc = "glob"
  /\ IF Len(layouts) = 0
       THEN dpc' = "raised" /\ derr' = "no layouts found"
       ELSE dpc' = "loop" /\ UNCHANGED derr
  /\ UNCHANGED <<layouts, k, u, disk0, disk, b, lib>>
  /\ UNCHANGED pvars

\* The tag checks without the check for the tag lib
TagErrorNoLib(tg, seen) == IF tg \in seen THEN "duplicate tag name" ELSE ""

\* The tag checks of the loop body: the error raised for tag tg, "" if none
TagError(tg, seen) ==
  IF tg = LibTag THEN "invalid tag name"
  ELSE IF tg \in seen THEN "duplicate tag name"
  ELSE ""

\* One iteration of the loop over the files
ProcessFile ==
  /\ dpc = "loop"
  /\ k < Len(layouts)
  /\ \E i \in {k + 1} : \E r \in {parse(ReadFile(layouts[i]))} : \E tg \in {r.board.t} :
         IF r.err # ""
           THEN dpc' = "raised" /\ derr' = r.err /\ UNCHANGED <<k, u, disk, b>>
         ELSE IF TagError(tg, u) # ""
           THEN dpc' = "raised" /\ derr' = TagError(tg, u) /\ UNCHANGED <<k, u, disk, b>>
         ELSE /\ u' = u \cup {tg}
              /\ disk' = [disk EXCEPT ![tg] = [src |-> i, board |-> r.board]]
              /\ b' = Append(b, tg)
              /\ k' = k + 1
              /\ UNCHANGED <<dpc, derr>>
  /\ UNCHANGED <<layouts, disk0, lib>>
  /\ UNCHANGED pvars

\* After the loop: lib.rs is written from the buffer
WriteLib ==
  /\ dpc = "loop"
  /\ k >= Len(layouts)
  /\ lib' = [written |-> TRUE, mods |-> b]
  /\ dpc' = "done"
  /\ UNCHANGED <<layouts, k, u, disk0, disk, b, derr>>
  /\ UNCHANGED pvars

DriverNext == DriverStart \/ ProcessFile \/ WriteLib

(***************************************************************************)
(* Specifications.  Each draws the input of the call from a bounded set.   *)
(***************************************************************************)
\* The number of lines after the tag line of a parsed file
BodyLen == 3

\* The number of lines after the tag line of a file of SPI pins
SpiBodyLen == 4

\* The number of lines between the name line and the first pin line
TagGap == 2

\* The most files the layout directory holds
MaxFiles == 3

PinLines ==
  {LnBlank, LnDoc, LnBare5, LnSda5, LnDash5, LnTwoI2c3, LnTwice4, LnCross3, LnNeg5}

I2cLines == {LnBlank, LnSda0, LnScl0, LnScl1, LnSda1, LnScl1Tx}

SpiLines == {LnTx0, LnSck0, LnRx0, LnCs0, LnRx1, LnTx1, LnSck1}

TagLines == {LnBlank, LnDoc, LnTag2, LnTag3, LnTag4, LnTagBad, LnJunk, LnDash5}

\* A file with any lines of PinLines after the tag
Init ==
  /\ \E body \in [1..BodyLen -> PinLines] : ParseIdle(Header \o body)
  /\ DriverIdle

Spec == Init /\ [][ParseNext]_vars

\* A file of I2C pins
InitI2c ==
  /\ \E body \in [1..BodyLen -> I2cLines] : ParseIdle(Header \o body)
  /\ DriverIdle

SpecI2c == InitI2c /\ [][ParseNext]_vars

\* A file of SPI pins
InitSpi ==
  /\ \E body \in [1..SpiBodyLen -> SpiLines] : ParseIdle(Header \o body)
  /\ DriverIdle

SpecSpi == InitSpi /\ [][ParseNext]_vars

\* A file with any lines of TagLines between the name and the pins
InitTag ==
  /\ \E gap \in [1..TagGap -> TagLines] : ParseIdle(<<LnName>> \o gap \o Body)
  /\ DriverIdle

SpecTag == InitTag /\ [][ParseNext]_vars

\* Up to MaxFiles files, listed by glob in any order (every order of every
\* directory is one of the lists), and a boards directory that holds modules
\* of an earlier run or none
InitDriver ==
  /\ ParseIdle(<<>>)
  /\ \E m \in 0..MaxFiles : layouts \in [1..m -> 1..Len(LayoutFiles)]
  /\ \E tags \in {ModuleTags} :
       disk0 \in {[tg \in tags |-> NoModule], [tg \in tags |-> OldModule]}
  /\ disk = disk0
  /\ dpc = "glob" /\ k = 0 /\ u = {} /\ b = <<>> /\ lib = NoLib /\ derr = ""

SpecDriver == InitDriver /\ [][DriverNext]_vars

(***************************************************************************)
(* Vocabulary of the properties.                                           *)
(***************************************************************************)
\* parse returned a board
Parsed == pc \in {"parsed", "done"}

\* The indices (1-based) of the pins of the returned board
PinIdx == 1..Len(ret.p)

\* The number of roles of a class a pin holds
ClassCount(pin, class) == Cardinality({j \in 1..Len(pin.roles) : pin.roles[j] \in class})

\* The 1-based index of the first line after the tag line
PinStart == _tag(d, _name(d).i).i + 1

\* A line of the pin region that is neither blank nor a comment
IsEntry(ln) == Len(ln) > 0 /\ ~startswith(ln, Comment)

\* The id a pin line declares: its text before the colon, read as an integer
EntryId(ln) == int(Upto(ln, find(ln, ":")))

\* ln is a pin line <id>:<rest>
IsPinLine(ln) == IsEntry(ln) /\ find(ln, ":") > 0 /\ EntryId(ln).ok

\* The text after the colon of a pin line
Rest(ln) == strip(From(ln, find(ln, ":") + 1))

\* ln is <id>: with nothing after the colon
IsBare(ln) == IsPinLine(ln) /\ Rest(ln) = <<>>

\* ln is <id>: -
IsDash(ln) == IsPinLine(ln) /\ Rest(ln) = <<"-">>

\* The role tokens a pin line lists, upper-cased, the empty ones dropped
Tokens(ln) ==
  LET parts == IF Has(Rest(ln), ",") THEN split(Rest(ln), ",") ELSE split(Rest(ln), " ")
  IN  [j \in {i \in 1..Len(parts) : strip(parts[i]) # <<>>} |-> upper(strip(parts[j]))]

\* ln lists two or more roles of one class
ListsTwo(ln, class) ==
  /\ IsPinLine(ln) /\ ~IsBare(ln) /\ ~IsDash(ln)
  /\ Cardinality({j \in DOMAIN Tokens(ln) : Tokens(ln)[j] \in class}) >= 2

Classes == {_VALID_I2C, _VALID_SPI, _VALID_UART}

(***************************************************************************)
(* C1.  A Pin of a parsed board holds at most one role of each of the      *)
(* classes I2C, SPI and UART; no file with a pin line that lists two or    *)
(* more roles of one class (the same token twice included) parses.         *)
(***************************************************************************)
C1_OneRolePerClass ==
  Parsed =>
    /\ \A j \in PinIdx : \A class \in Classes : ClassCount(ret.p[j], class) <= 1
    /\ \A y \in PinStart..Len(d) : \A class \in Classes : ~ListsTwo(d[y], class)

\* A parsed pin that holds one role of each of the three classes
C1_Witness ==
  /\ pc = "done"
  /\ \E j \in PinIdx : \A class \in Classes : ClassCount(ret.p[j], class) = 1

(***************************************************************************)
(* C2.  For all pins p, q of a parsed board, pins_i2c(p, q) is bus b when  *)
(* p holds I2Cb_SDA and q holds I2Cb_SCL, and None in every other case.    *)
(***************************************************************************)
SdaRole(bus) == IF bus = 0 THEN I2C0_SDA ELSE I2C1_SDA

SclRole(bus) == IF bus = 0 THEN I2C0_SCL ELSE I2C1_SCL

C2_I2cResolver ==
  pc = "done" =>
    \A j, m \in PinIdx :
      pins_i2c(i2c, ret.p[j].id, ret.p[m].id)
        = {bus \in {0, 1} : HasRole(ret.p[j], SdaRole(bus)) /\ HasRole(ret.p[m], SclRole(bus))}

\* A board where an SDA pin resolves with the SCL pin of its bus and does
\* not resolve with the SCL pin of the other bus
C2_Witness ==
  /\ pc = "done"
  /\ \E j, m, q \in PinIdx :
       /\ HasRole(ret.p[j], I2C0_SDA) /\ HasRole(ret.p[m], I2C0_SCL)
       /\ HasRole(ret.p[q], I2C1_SCL)
       /\ pins_i2c(i2c, ret.p[j].id, ret.p[m].id) = Some(0)
       /\ pins_i2c(i2c, ret.p[j].id, ret.p[q].id) = None

(***************************************************************************)
(* C3.  For all pins tx, sck and optional pins rx, cs of a parsed board,   *)
(* pins_spi is bus b when tx holds SPIb_TX, sck holds SPIb_SCK, rx is      *)
(* absent or holds SPIb_RX and cs is absent or holds SPIb_CS, and None in  *)
(* every other case.                                                       *)
(***************************************************************************)
SpiRole(bus, line) ==
  IF line = "TX" THEN (IF bus = 0 THEN SPI0_TX ELSE SPI1_TX)
  ELSE IF line = "SCK" THEN (IF bus = 0 THEN SPI0_SCK ELSE SPI1_SCK)
  ELSE IF line = "RX" THEN (IF bus = 0 THEN SPI0_RX ELSE SPI1_RX)
  ELSE (IF bus = 0 THEN SPI0_CS ELSE SPI1_CS)

\* An optional pin of the board: None, or the index of one
OptIdx == {None} \cup {Some(j) : j \in PinIdx}

OptId(o) == {ret.p[j].id : j \in o}

C3_SpiResolver ==
  pc = "done" =>
    \A j, m \in PinIdx : \A rx, cs \in OptIdx :
      pins_spi(spi, ret.p[j].id, ret.p[m].id, OptId(rx), OptId(cs))
        = {bus \in {0, 1} :
             /\ HasRole(ret.p[j], SpiRole(bus, "TX"))
             /\ HasRole(ret.p[m], SpiRole(bus, "SCK"))
             /\ \A q \in rx : HasRole(ret.p[q], SpiRole(bus, "RX"))
             /\ \A q \in cs : HasRole(ret.p[q], SpiRole(bus, "CS"))}

\* A board where tx, sck resolve alone and with the rx and cs pins of their
\* bus, and do not resolve with an rx pin that lacks the RX role
C3_Witness ==
  /\ pc = "done"
  /\ \E j, m, q, w \in PinIdx :
       /\ pins_spi(spi, ret.p[j].id, ret.p[m].id, None, None) = Some(0)
       /\ pins_spi(spi, ret.p[j].id, ret.p[m].id, Some(ret.p[q].id), Some(ret.p[w].id)) = Some(0)
       /\ pins_spi(spi, ret.p[j].id, ret.p[m].id, Some(ret.p[w].id), None) = None

(***************************************************************************)
(* C4.  For every pin id of a parsed board the PWM table has exactly one   *)
(* entry, its channel is floor(id / 2) mod 8 and its sub-channel is A      *)
(* exactly when the id is even.                                            *)
(***************************************************************************)
C4_PwmFormula ==
  pc = "done" =>
    \A j \in PinIdx :
      /\ Cardinality({a \in 1..Len(pwm) : pwm[a].pin = ret.p[j].id}) = 1
      /\ pins_pwm(pwm, ret.p[j].id).chan = (ret.p[j].id \div 2) % 8
      /\ pins_pwm(pwm, ret.p[j].id).sub = "A" <=> ret.p[j].id % 2 = 0

\* A parsed board whose pin -5 has the table entry of channel 6, where
\* floor(-5 / 2) mod 8 is 5
C4_Witness ==
  /\ pc = "done"
  /\ \E j \in PinIdx : ret.p[j].id = 0 - 5 /\ pins_pwm(pwm, ret.p[j].id).chan = 6

(***************************************************************************)
(* C7.  Every Pin of a parsed board has an id >= 0.                        *)
(***************************************************************************)
C7_NonNegativeIds == Parsed => \A j \in PinIdx : ret.p[j].id >= 0

\* The file with the line -5: I2C0_SDA parsed, and the board holds pin -5
C7_Witness ==
  /\ Parsed
  /\ \E y \in PinStart..Len(d) : d[y] = LnNeg5
  /\ \E j \in PinIdx : ret.p[j].id = 0 - 5

(***************************************************************************)
(* C5.  A file where one pin id appears on two pin lines does not parse,   *)
(* whatever follows the colons, and the line that repeats an id raises     *)
(* the duplicate-id error; the ids of a parsed board are distinct.         *)
(***************************************************************************)
\* The loop of _pins raised on line x
RaisedInPins == pc = "raised" /\ t # <<>> /\ _check_ascii(t, TRUE) /\ x < Len(d)

\* Line y repeats the id of an earlier pin line
RepeatsId(y) ==
  /\ IsPinLine(d[y])
  /\ \E z \in PinStart..(y - 1) : IsPinLine(d[z]) /\ EntryId(d[z]).val = EntryId(d[y]).val

C5_DuplicateIds ==
  /\ Parsed =>
       /\ \A y \in PinStart..Len(d) : ~RepeatsId(y)
       /\ \A j, m \in PinIdx : ret.p[j].id = ret.p[m].id => j = m
  /\ (RaisedInPins /\ RepeatsId(x + 1)) => err = "duplicate pin ID"

\* The line 5: I2C0_SDA after the line 5: raised the duplicate-id error
C5_Witness ==
  /\ RaisedInPins
  /\ err = "duplicate pin ID"
  /\ d[x + 1] = LnSda5
  /\ \E z \in PinStart..x : d[z] = LnBare5

(***************************************************************************)
(* C6.  As claimed: a line <id>: with nothing after the colon yields a     *)
(* Pin with that id, an empty role list and the comments accumulated       *)
(* since the previous pin line as doc, and leaves the comment buffer       *)
(* empty.                                                                  *)
(***************************************************************************)
\* The last entry line before line y, or the tag line
PrevEntry(y) ==
  IF \E z \in PinStart..(y - 1) : IsEntry(d[z])
    THEN CHOOSE z \in PinStart..(y - 1) :
           IsEntry(d[z]) /\ \A w \in (z + 1)..(y - 1) : ~IsEntry(d[w])
    ELSE PinStart - 1

\* The comment lines between the previous entry line and line y, as the doc
\* of a Pin
DocBefore(y) ==
  LET idx == {z \in (PrevEntry(y) + 1)..(y - 1) : startswith(d[z], Comment)}
      nth(a) == CHOOSE z \in idx : Cardinality({w \in idx : w <= z}) = a
  IN  IF idx = {} THEN None
      ELSE Some([a \in 1..Cardinality(idx) |-> strip(_strip_comment(d[nth(a)]))])

\* The board holds a Pin for line y with no roles and the comments before it
DeclaresEmptyPin(y) ==
  \E j \in PinIdx :
    /\ ret.p[j].id = EntryId(d[y]).val
    /\ ret.p[j].roles = <<>>
    /\ ret.p[j].doc = DocBefore(y)

\* The loop of _pins has just finished line y
JustDid(y) == pc = "pins" /\ x = y

C6_BareLineDeclaresPin ==
  \A y \in PinStart..Len(d) :
    IsBare(d[y]) =>
      /\ Parsed => DeclaresEmptyPin(y)
      /\ JustDid(y) => c = <<>>

(***************************************************************************)
(* C6, amended.  A line <id>: with nothing after the colon declares no     *)
(* pin: the parsed board holds no Pin with that id, and the line leaves    *)
(* the comment buffer empty.  A line <id>: - yields a Pin with that id, an *)
(* empty role list and the comments accumulated since the previous pin     *)
(* line as doc, and leaves the comment buffer empty.                       *)
(***************************************************************************)
C6_BareLineDeclaresNoPin ==
  \A y \in PinStart..Len(d) :
    /\ IsBare(d[y]) =>
         /\ Parsed => \A j \in PinIdx : ret.p[j].id # EntryId(d[y]).val
         /\ JustDid(y) => c = <<>>
    /\ IsDash(d[y]) =>
         /\ Parsed => DeclaresEmptyPin(y)
         /\ JustDid(y) => c = <<>>

\* A parsed file with a comment line, then 5: with nothing after the colon
C6_Witness ==
  /\ pc = "done"
  /\ \E y \in (PinStart + 1)..Len(d) : d[y - 1] = LnDoc /\ d[y] = LnBare5

(***************************************************************************)
(* C10.  As claimed: after the name line, blank and comment lines          *)
(* skipped, the first line that starts with # and has at least 3           *)
(* characters is the tag line; the tag is its text after the #, and parse  *)
(* returns it lower-cased if it passes the strict grammar.                 *)
(***************************************************************************)
\* _tag has run
TagDone == pc \notin {"start", "tag"} /\ n # <<>> /\ _check_ascii(n, FALSE)

\* The 1-based index of the name line
NameAt == _name(d).i

\* Line y is the first line after the name line that starts with # and has
\* at least least characters, and only lines that skip(line) precede it
FirstHash(y, least, skip(_)) ==
  /\ startswith(d[y], Hash) /\ Len(d[y]) >= least
  /\ \A z \in (NameAt + 1)..(y - 1) :
       /\ ~(startswith(d[z], Hash) /\ Len(d[z]) >= least)
       /\ skip(d[z])

\* The outcome of parse when line y is taken as the tag line
TagIs(y) ==
  IF _check_ascii(From(d[y], 1), TRUE)
    THEN /\ t = From(d[y], 1)
         /\ pc = "raised" => err \notin {"#<tag> entry was not found", "tag value is not valid"}
         /\ Parsed => ret.t = lower(From(d[y], 1))
    ELSE pc = "raised" /\ err = "tag value is not valid"

BlankOrComment(ln) == Len(ln) = 0 \/ startswith(ln, Comment)

C10_TagOfThree ==
  TagDone =>
    \A y \in (NameAt + 1)..Len(d) : FirstHash(y, 3, BlankOrComment) => TagIs(y)

(***************************************************************************)
(* C10, amended.  After the name line, the first line that starts with #   *)
(* and has at least 4 characters is the tag line, provided every line      *)
(* before it is blank, a comment or without a colon; the tag is its text   *)
(* after the #, and parse returns it lower-cased if it passes the strict   *)
(* grammar.  A shorter # line is never the tag line.                       *)
(***************************************************************************)
Skipped(ln) == BlankOrComment(ln) \/ ~Has(ln, ":")

C10_TagOfFour ==
  TagDone =>
    /\ \A y \in (NameAt + 1)..Len(d) : FirstHash(y, 4, Skipped) => TagIs(y)
    /\ t # <<>> => Len(t) >= 3

\* A parsed file where the line #ab was passed over and the next line, #aBc,
\* gave the tag abc
C10_Witness ==
  /\ pc = "done"
  /\ d[NameAt + 1] = LnTag2 /\ d[NameAt + 2] = LnTag3
  /\ ret.t = <<"a", "b", "c">>

(***************************************************************************)
(* Vocabulary of the properties of make_code_files.                        *)
(***************************************************************************)
\* The run is over
Ended == dpc \in {"done", "raised"}

FileIdx == 1..Len(layouts)

\* What parse returns or raises for each text a file may hold
ParseOf == Tuple([f \in 1..Len(LayoutFiles) |-> parse(ReadFile(f))])

\* The tag line's text after the # of each text a file may hold, as written
RawTagOf ==
  Tuple([f \in 1..Len(LayoutFiles) |->
           Strict(ReadLines(ReadFile(f)), LAMBDA v : _tag(v, _name(v).i).val)])

\* File i parses
ParsesOk(i) == ParseOf[layouts[i]].err = ""

RawTag(i) == RawTagOf[layouts[i]]

\* The tag parse returns for file i
TagOf(i) == ParseOf[layouts[i]].board.t

\* Files i and j carry tags that are equal after lower-casing
SameTag(i, j) == ParsesOk(i) /\ ParsesOk(j) /\ lower(RawTag(i)) = lower(RawTag(j))

\* File j is the first file that repeats the tag of an earlier file
FirstRepeat(j) ==
  /\ \E i \in 1..(j - 1) : SameTag(i, j)
  /\ \A m \in 1..(j - 1) : \A i \in 1..(m - 1) : ~SameTag(i, m)

\* File i fails: it does not parse, or its tag is lib, or an earlier file
\* has its tag
Fails(i) ==
  \/ ~ParsesOk(i)
  \/ TagOf(i) = LibTag
  \/ \E m \in 1..(i - 1) : ParsesOk(m) /\ TagOf(m) = TagOf(i)

(***************************************************************************)
(* C8.  A run over files of which two carry tags that are equal after      *)
(* lower-casing ends in an error, in whichever order glob lists the        *)
(* files; when no file listed before the second of the two fails for       *)
(* another reason, the error is the duplicate-tag error, raised at that    *)
(* file.                                                                   *)
(***************************************************************************)
C8_DuplicateTagAnyOrder ==
  Ended =>
    \A j \in FileIdx :
      FirstRepeat(j) =>
        /\ dpc = "raised"
        /\ ~lib.written
        /\ (\A m \in 1..j : ParsesOk(m) /\ TagOf(m) # LibTag)
             => derr = "duplicate tag name" /\ k = j - 1

\* A run that raised the duplicate-tag error at a file whose tag differs
\* from the earlier file's tag in case only
C8_Witness ==
  /\ dpc = "raised"
  /\ derr = "duplicate tag name"
  /\ \E i \in 1..k : RawTag(i) # RawTag(k + 1) /\ lower(RawTag(i)) = lower(RawTag(k + 1))
  /\ RawTag(k + 1) = From(LnTagboardx, 1)

(***************************************************************************)
(* C9.  The run aborts at the first file that fails (parse error, tag lib, *)
(* duplicate tag): the modules on disk are those of the files before it    *)
(* and, for every other tag, what was there before the run; no later file  *)
(* is processed and lib.rs is not written.  lib.rs is written only after   *)
(* every file has succeeded.                                               *)
(***************************************************************************)
\* The boards directory after the first j files have been processed
DiskAfter(j) ==
  [tg \in DOMAIN disk0 |->
     IF \E m \in 1..j : TagOf(m) = tg
       THEN LET w == CHOOSE m \in 1..j : TagOf(m) = tg
            IN  [src |-> w, board |-> ParseOf[layouts[w]].board]
       ELSE disk0[tg]]

C9_AbortAtFailingFile ==
  /\ \A m \in 1..k : ~Fails(m)
  /\ dpc \in {"loop", "done", "raised"} => disk = DiskAfter(k)
  /\ b = [m \in 1..k |-> TagOf(m)]
  /\ (dpc = "raised" /\ Len(layouts) > 0) => k < Len(layouts) /\ Fails(k + 1) /\ ~lib.written
  /\ (Ended /\ \E m \in FileIdx : Fails(m)) => dpc = "raised"
  /\ lib.written => dpc = "done" /\ k = Len(layouts) /\ lib.mods = b

\* A run that aborted at its second file of three, over a boards
\* directory that held modules of an earlier run
C9_Witness ==
  /\ dpc = "raised"
  /\ k = 1 /\ Len(layouts) = 3
  /\ ~Fails(3)
  /\ \E tg \in DOMAIN disk0 : disk0[tg] = OldModule /\ disk[tg] = OldModule
  /\ \E tg \in DOMAIN disk0 : disk[tg].src = 1

====
